---- MODULE Spec2Model ----
(***************************************************************************)
(* Model of performance/pkg/profiles/profile.go: the heap sampling-rate    *)
(* knob, the one-shot heap snapshot, and the CPU / trace session           *)
(* lifecycles, over an explicit filesystem, file-handle table and the      *)
(* runtime's process-wide profiler and tracer singletons.                  *)
(***************************************************************************)
EXTENDS Integers, Sequences, FiniteSets, TLC

(* ------------------------------ bounds --------------------------------- *)
\* Number of files the process may open over a run (every os.Create that
\* succeeds takes one entry of the handle table).
MaxHandles == 3

(* --------------------------- program constants ------------------------- *)
CPUTypeBuiltIn == "built-in"
CPUTypeFGProf == "fgprof"
\* runtime.MemProfileRate as set by StartHeapRecording(false).
DefaultMemProfileRate == 512 * 1024

(* ------------------------------ inputs --------------------------------- *)
Dirs == {"d1"}
CPUTypes == {CPUTypeBuiltIn, CPUTypeFGProf, "bogus"}
FileNames == {"mem.pprof", "cpu.pprof", "cpu.fgprof.pprof", "trace.out"}
\* Which step of a call the environment makes fail: "mkdir" os.MkdirAll,
\* "create" os.Create, "write" the profile write / fgprof flush, "close"
\* File.Close, "write+close" both of the last two.
Faults == {"none", "mkdir", "create", "write", "close", "write+close"}
MkdirFails(fl) == fl = "mkdir"
CreateFails(fl) == fl = "create"
WriteFails(fl) == fl \in {"write", "write+close"}
CloseFails(fl) == fl \in {"close", "write+close"}

(* ------------------------------ errors --------------------------------- *)
\* An error value is a sequence of items (a merged error keeps its parts in
\* order); the nil error is the empty sequence. An item keeps the message
\* of the cause and the contexts it was wrapped with, outermost first.
Nil == << >>
Err(msg) == << [msg |-> msg, ctx |-> << >>] >>
ErrUnknownType == Err("unknown CPU profile type")
ErrMkdir == Err("mkdir failed")
ErrCreate == Err("create failed")
ErrWrite == Err("write failed")
ErrIO == Err("close failed")
ErrClosed == Err("file already closed")
ErrCPUActive == Err("cpu profiling already in use")
ErrTraceActive == Err("tracing is already enabled")

\* errors.Wrapf: nil stays nil, otherwise the context is put in front.
Wrapf(err, ctx) ==
  [i \in 1..Len(err) |-> [err[i] EXCEPT !.ctx = <<ctx>> \o @]]

CloseCtx(dir, fileName) == <<"close", dir, fileName>>

(* ------------------------------- state --------------------------------- *)
VARIABLES
  MemProfileRate,  \* runtime.MemProfileRate
  dirs,            \* the directories that exist
  files,           \* [dir, name] -> [exists, data]: data is the sequence of
                   \* chunks in the file, a chunk named by the handle that
                   \* wrote it
  handles,         \* handle table: [dir, name, open, closes] per os.Create;
                   \* closes counts the Close calls on the handle: 0, 1,
                   \* or 2 for "more than once"
  cpu,             \* handle the runtime CPU profiler writes to, 0 when off
  tracing,         \* handle the runtime tracer writes to, 0 when off
  fg,              \* handles with a running fgprof sampler
  closers,         \* stop functions handed out: handle -> kind of session
  ret              \* the last call: what it was given and what it returned

vars == <<MemProfileRate, dirs, files, handles, cpu, tracing, fg, closers, ret>>

\* The part of the state the library calls act on, as one value.
World == [dirs |-> dirs, files |-> files, handles |-> handles,
          cpu |-> cpu, tracing |-> tracing, fg |-> fg]

NoFile == [exists |-> FALSE, data |-> << >>]

(* ------------------------ operating system ----------------------------- *)
\* os.MkdirAll(dir, os.ModePerm)
MkdirAll(w, dir, fail) ==
  IF fail THEN [w |-> w, err |-> ErrMkdir]
  ELSE [w |-> [w EXCEPT !.dirs = @ \cup {dir}], err |-> Nil]

\* os.Create(path): O_RDWR|O_CREATE|O_TRUNC; f is the new handle.
Create(w, dir, fileName, fail) ==
  IF fail \/ dir \notin w.dirs THEN [w |-> w, f |-> 0, err |-> ErrCreate]
  ELSE [w |-> [w EXCEPT
                 !.files[<<dir, fileName>>] = [exists |-> TRUE, data |-> << >>],
                 !.handles = Append(@, [dir |-> dir, name |-> fileName,
                                        open |-> TRUE, closes |-> 0])],
        f |-> Len(w.handles) + 1,
        err |-> Nil]

\* (*os.File).Close: the descriptor is released also when Close reports an
\* I/O error; closing a closed file reports os.ErrClosed.
FClose(w, h, fail) ==
  LET w1 == [w EXCEPT !.handles[h].closes = IF @ = 0 THEN 1 ELSE 2] IN
  IF ~w.handles[h].open THEN [w |-> w1, err |-> ErrClosed]
  ELSE [w |-> [w1 EXCEPT !.handles[h].open = FALSE],
        err |-> IF fail THEN ErrIO ELSE Nil]

\* A write through a handle whose offset is 0: the chunk replaces what the
\* file holds at its start.
WriteAtStart(data, chunk) ==
  <<chunk>> \o (IF data = << >> THEN << >> ELSE Tail(data))

\* (*os.File).Write of one profile through handle h.
FWrite(w, h, fail) ==
  IF fail \/ ~w.handles[h].open THEN [w |-> w, err |-> ErrWrite]
  ELSE [w |-> [w EXCEPT !.files[<<w.handles[h].dir, w.handles[h].name>>].data =
                           WriteAtStart(@, h)],
        err |-> Nil]

(* ------------------------------ runtime -------------------------------- *)
\* pprof.StartCPUProfile(f)
StartCPUProfile(w, h) ==
  IF w.cpu # 0 THEN [w |-> w, err |-> ErrCPUActive]
  ELSE [w |-> [w EXCEPT !.cpu = h], err |-> Nil]

\* pprof.StopCPUProfile(): no-op when off, else the profile is written to
\* the writer given at start (a failed write is not reported).
StopCPUProfile(w) ==
  IF w.cpu = 0 THEN w ELSE [FWrite(w, w.cpu, FALSE).w EXCEPT !.cpu = 0]

\* trace.Start(f)
TraceStart(w, h) ==
  IF w.tracing # 0 THEN [w |-> w, err |-> ErrTraceActive]
  ELSE [w |-> [w EXCEPT !.tracing = h], err |-> Nil]

\* trace.Stop()
TraceStop(w) ==
  IF w.tracing = 0 THEN w ELSE [FWrite(w, w.tracing, FALSE).w EXCEPT !.tracing = 0]

\* fgprof.Start(f, fgprof.FormatPprof): cannot fail.
FGProfStart(w, h) == [w EXCEPT !.fg = @ \cup {h}]

\* The function fgprof.Start returns: stops the sampler and writes the
\* profile to f, reporting the write's error.
closeFGProfFn(w, h, fail) ==
  LET r == FWrite(w, h, fail) IN
  [w |-> [r.w EXCEPT !.fg = @ \ {h}], err |-> r.err]

\* pprof.WriteHeapProfile(f)
WriteHeapProfile(w, h, fail) == FWrite(w, h, fail)

(* ----------------------------- errcapture ------------------------------ *)
\* errcapture.Do(&err, f.Close, format...): runs the close and, when it
\* fails, attaches its wrapped error to *err.
Do(w, err, h, closeFail, ctx) ==
  LET c == FClose(w, h, closeFail) IN
  [w |-> c.w, err |-> IF c.err = Nil THEN err ELSE err \o Wrapf(c.err, ctx)]

(* ------------------------------ profile.go ----------------------------- *)
\* What a call hands back: the world it leaves, the stop function (the
\* handle it captured, 0 for a nil func), the handle the call opened (0 when
\* it opened none) and the error.
Result(w, closeFn, f, err) == [w |-> w, closeFn |-> closeFn, f |-> f, err |-> err]

\* StartHeapRecording: the rate it stores.
StartHeapRecordingRate_Decimal(everyAlloc) == IF everyAlloc THEN 1 ELSE 512 * 1000
StartHeapRecordingRate(everyAlloc) == IF everyAlloc THEN 1 ELSE DefaultMemProfileRate

\* Heap(dir)
HeapFn_NoCloseOnWriteError(w, dir, fl) ==
  LET m == MkdirAll(w, dir, MkdirFails(fl)) IN
  IF m.err # Nil THEN Result(m.w, 0, 0, m.err) ELSE
  LET c == Create(m.w, dir, "mem.pprof", CreateFails(fl)) IN
  IF c.err # Nil THEN Result(c.w, 0, 0, c.err) ELSE
  LET wr == WriteHeapProfile(c.w, c.f, WriteFails(fl)) IN
  IF wr.err # Nil THEN Result(wr.w, 0, c.f, wr.err) ELSE
  LET d == Do(wr.w, wr.err, c.f, CloseFails(fl), <<"close">>) IN
  Result(d.w, 0, c.f, d.err)
HeapFn(w, dir, fl) ==
  LET m == MkdirAll(w, dir, MkdirFails(fl)) IN
  IF m.err # Nil THEN Result(m.w, 0, 0, m.err) ELSE
  LET c == Create(m.w, dir, "mem.pprof", CreateFails(fl)) IN
  IF c.err # Nil THEN Result(c.w, 0, 0, c.err) ELSE
  LET wr == WriteHeapProfile(c.w, c.f, WriteFails(fl))
      d == Do(wr.w, wr.err, c.f, CloseFails(fl), <<"close">>) IN
  Result(d.w, 0, c.f, d.err)

\* StartCPU: the first switch, which rejects an unknown type ...
IsKnownCPUType_NoDefault(typ) == TRUE
IsKnownCPUType(typ) == typ \in {CPUTypeBuiltIn, CPUTypeFGProf}
\* ... and picks the file name.
CPUFileName_Same(typ) == "cpu.pprof"
CPUFileName(typ) == IF typ = CPUTypeFGProf THEN "cpu.fgprof.pprof" ELSE "cpu.pprof"

\* StartCPU, case CPUTypeBuiltIn of the second switch, f being open.
StartBuiltIn_IgnoreError(w, dir, fileName, f, fl) ==
  Result(StartCPUProfile(w, f).w, f, f, Nil)
StartBuiltIn_NoClose(w, dir, fileName, f, fl) ==
  LET s == StartCPUProfile(w, f) IN
  IF s.err # Nil THEN Result(s.w, 0, f, s.err) ELSE Result(s.w, f, f, Nil)
StartBuiltIn(w, dir, fileName, f, fl) ==
  LET s == StartCPUProfile(w, f) IN
  IF s.err # Nil
  THEN LET d == Do(s.w, s.err, f, CloseFails(fl), CloseCtx(dir, fileName)) IN
       Result(d.w, 0, f, d.err)
  ELSE Result(s.w, f, f, Nil)

\* StartCPU, case CPUTypeFGProf of the second switch.
StartFGProf(w, f) == Result(FGProfStart(w, f), f, f, Nil)

\* StartCPU(dir, typ)
StartCPUFn_AttachFirst(w, dir, typ, fl) ==
  IF ~IsKnownCPUType(typ) THEN Result(w, 0, 0, ErrUnknownType) ELSE
  IF typ = CPUTypeBuiltIn /\ w.cpu # 0 THEN Result(w, 0, 0, ErrCPUActive) ELSE
  LET m == MkdirAll(w, dir, MkdirFails(fl)) IN
  IF m.err # Nil THEN Result(m.w, 0, 0, m.err) ELSE
  LET c == Create(m.w, dir, CPUFileName(typ), CreateFails(fl)) IN
  IF c.err # Nil THEN Result(c.w, 0, 0, c.err) ELSE
  IF typ = CPUTypeBuiltIn THEN StartBuiltIn(c.w, dir, CPUFileName(typ), c.f, fl)
  ELSE IF typ = CPUTypeFGProf THEN StartFGProf(c.w, c.f)
  ELSE Result(c.w, 0, c.f, Nil)
StartCPUFn(w, dir, typ, fl) ==
  IF ~IsKnownCPUType(typ) THEN Result(w, 0, 0, ErrUnknownType) ELSE
  LET m == MkdirAll(w, dir, MkdirFails(fl)) IN
  IF m.err # Nil THEN Result(m.w, 0, 0, m.err) ELSE
  LET c == Create(m.w, dir, CPUFileName(typ), CreateFails(fl)) IN
  IF c.err # Nil THEN Result(c.w, 0, 0, c.err) ELSE
  IF typ = CPUTypeBuiltIn THEN StartBuiltIn(c.w, dir, CPUFileName(typ), c.f, fl)
  ELSE IF typ = CPUTypeFGProf THEN StartFGProf(c.w, c.f)
  ELSE Result(c.w, 0, c.f, Nil)

\* StartTrace(dir)
StartTraceFn_CloseOnError(w, dir, fl) ==
  LET m == MkdirAll(w, dir, MkdirFails(fl)) IN
  IF m.err # Nil THEN Result(m.w, 0, 0, m.err) ELSE
  LET c == Create(m.w, dir, "trace.out", CreateFails(fl)) IN
  IF c.err # Nil THEN Result(c.w, 0, 0, c.err) ELSE
  LET s == TraceStart(c.w, c.f) IN
  IF s.err # Nil
  THEN LET d == Do(s.w, s.err, c.f, CloseFails(fl), CloseCtx(dir, "trace.out")) IN
       Result(d.w, 0, c.f, d.err)
  ELSE Result(s.w, c.f, c.f, Nil)
StartTraceFn(w, dir, fl) ==
  LET m == MkdirAll(w, dir, MkdirFails(fl)) IN
  IF m.err # Nil THEN Result(m.w, 0, 0, m.err) ELSE
  LET c == Create(m.w, dir, "trace.out", CreateFails(fl)) IN
  IF c.err # Nil THEN Result(c.w, 0, 0, c.err) ELSE
  LET s == TraceStart(c.w, c.f) IN
  IF s.err # Nil THEN Result(s.w, 0, c.f, s.err) ELSE Result(s.w, c.f, c.f, Nil)

\* The stop function of a built-in CPU session that captured handle h.
CloseFnBuiltIn_CloseFirst(w, h, fl) ==
  LET c == FClose(w, h, CloseFails(fl)) IN
  Result(StopCPUProfile(c.w), 0, 0,
         Wrapf(c.err, CloseCtx(w.handles[h].dir, w.handles[h].name)))
CloseFnBuiltIn(w, h, fl) ==
  LET c == FClose(StopCPUProfile(w), h, CloseFails(fl)) IN
  Result(c.w, 0, 0, Wrapf(c.err, CloseCtx(w.handles[h].dir, w.handles[h].name)))

\* The stop function of an fgprof session that captured handle h.
CloseFnFGProf_FlushErrorOnly(w, h, fl) ==
  LET r == closeFGProfFn(w, h, WriteFails(fl))
      c == FClose(r.w, h, CloseFails(fl)) IN
  Result(c.w, 0, 0,
         IF r.err # Nil THEN r.err
         ELSE Wrapf(c.err, CloseCtx(w.handles[h].dir, w.handles[h].name)))
CloseFnFGProf(w, h, fl) ==
  LET r == closeFGProfFn(w, h, WriteFails(fl))
      d == Do(r.w, r.err, h, CloseFails(fl),
              CloseCtx(w.handles[h].dir, w.handles[h].name)) IN
  Result(d.w, 0, 0, d.err)

\* The stop function of a trace session that captured handle h.
CloseFnTrace(w, h, fl) ==
  LET c == FClose(TraceStop(w), h, CloseFails(fl)) IN
  Result(c.w, 0, 0, Wrapf(c.err, CloseCtx(w.handles[h].dir, w.handles[h].name)))

(* ------------------------------ actions -------------------------------- *)
Call(op, dir, typ, fl, h, r) ==
  [op |-> op, dir |-> dir, typ |-> typ, fl |-> fl, h |-> h,
   closeFn |-> r.closeFn, f |-> r.f, err |-> r.err]

Commit(w) ==
  /\ dirs' = w.dirs
  /\ files' = w.files
  /\ handles' = w.handles
  /\ cpu' = w.cpu
  /\ tracing' = w.tracing
  /\ fg' = w.fg

NoResult == Result(World, 0, 0, Nil)

StopHeapRecording ==
  /\ MemProfileRate' = 0
  /\ ret' = Call("StopHeapRecording", "", "", "none", 0, NoResult)
  /\ UNCHANGED <<dirs, files, handles, cpu, tracing, fg, closers>>

StartHeapRecording(everyAlloc) ==
  /\ MemProfileRate' = StartHeapRecordingRate(everyAlloc)
  /\ ret' = Call("StartHeapRecording", "", IF everyAlloc THEN "true" ELSE "false",
                 "none", 0, NoResult)
  /\ UNCHANGED <<dirs, files, handles, cpu, tracing, fg, closers>>

Heap(dir, fl) ==
  /\ Len(handles) < MaxHandles
  /\ LET r == HeapFn(World, dir, fl) IN
       /\ Commit(r.w)
       /\ ret' = Call("Heap", dir, "", fl, 0, r)
  /\ UNCHANGED <<MemProfileRate, closers>>

StartCPU(dir, typ, fl) ==
  /\ Len(handles) < MaxHandles
  /\ LET r == StartCPUFn(World, dir, typ, fl) IN
       /\ Commit(r.w)
       /\ closers' = IF r.closeFn # 0 THEN (r.closeFn :> typ) @@ closers ELSE closers
       /\ ret' = Call("StartCPU", dir, typ, fl, 0, r)
  /\ UNCHANGED MemProfileRate

StartTrace(dir, fl) ==
  /\ Len(handles) < MaxHandles
  /\ LET r == StartTraceFn(World, dir, fl) IN
       /\ Commit(r.w)
       /\ closers' = IF r.closeFn # 0 THEN (r.closeFn :> "trace") @@ closers ELSE closers
       /\ ret' = Call("StartTrace", dir, "", fl, 0, r)
  /\ UNCHANGED MemProfileRate

\* A stop function is invoked. An fgprof stop function invoked again blocks
\* in its send to the sampler goroutine, which has exited, and never returns.
Stop(h, fl) ==
  /\ h \in DOMAIN closers
  /\ closers[h] = CPUTypeFGProf => h \in fg
  /\ LET r == IF closers[h] = CPUTypeBuiltIn THEN CloseFnBuiltIn(World, h, fl)
              ELSE IF closers[h] = CPUTypeFGProf THEN CloseFnFGProf(World, h, fl)
              ELSE CloseFnTrace(World, h, fl) IN
       /\ Commit(r.w)
       /\ ret' = Call("stop", handles[h].dir, closers[h], fl, h, r)
  /\ UNCHANGED <<MemProfileRate, closers>>

Init ==
  /\ MemProfileRate = DefaultMemProfileRate
  /\ dirs \in SUBSET Dirs
  /\ files = [p \in Dirs \X FileNames |-> NoFile]
  /\ handles = << >>
  /\ cpu = 0
  /\ tracing = 0
  /\ fg = {}
  /\ closers = << >>
  /\ ret = Call("", "", "", "none", 0, NoResult)

\* The faults a call can meet: a step it never takes cannot fail.
HeapFaults == Faults
StartCPUFaults(typ) ==
  IF typ = CPUTypeBuiltIn THEN {"none", "mkdir", "create", "close"}
  ELSE IF typ = CPUTypeFGProf THEN {"none", "mkdir", "create"}
  ELSE {"none"}
StartTraceFaults == {"none", "mkdir", "create"}
StopFaults(h) ==
  IF h \in DOMAIN closers /\ closers[h] = CPUTypeFGProf
  THEN {"none", "write", "close", "write+close"}
  ELSE {"none", "close"}

Next ==
  \/ StopHeapRecording
  \/ \E everyAlloc \in BOOLEAN : StartHeapRecording(everyAlloc)
  \/ \E dir \in Dirs, fl \in HeapFaults : Heap(dir, fl)
  \/ \E dir \in Dirs, typ \in CPUTypes : \E fl \in StartCPUFaults(typ) : StartCPU(dir, typ, fl)
  \/ \E dir \in Dirs, fl \in StartTraceFaults : StartTrace(dir, fl)
  \/ \E h \in 1..MaxHandles : \E fl \in StopFaults(h) : Stop(h, fl)

Spec == Init /\ [][Next]_vars

TypeOK ==
  /\ MemProfileRate \in {0, 1, DefaultMemProfileRate}
  /\ dirs \subseteq Dirs
  /\ Len(handles) <= MaxHandles
  /\ cpu \in 0..Len(handles)
  /\ tracing \in 0..Len(handles)
  /\ fg \subseteq DOMAIN handles
  /\ DOMAIN closers \subseteq DOMAIN handles

(* ------------------------------ vocabulary ----------------------------- *)
Path(h) == <<handles[h].dir, handles[h].name>>
\* Sessions of a kind whose stop function has not been invoked yet.
Unstopped(kind) ==
  {h \in DOMAIN closers : closers[h] = kind /\ handles[h].closes = 0}
\* No stop function has been invoked a second time.
NoRepeatedStop == \A h \in DOMAIN closers : handles[h].closes <= 1
AtMostOneActive ==
  /\ Cardinality(Unstopped(CPUTypeBuiltIn)) <= 1
  /\ Cardinality(Unstopped("trace")) <= 1
\* The world apart from the sampling rate is as it was.
NothingTouched ==
  UNCHANGED <<dirs, files, handles, cpu, tracing, fg, closers>>
\* The error a close with the given fault reports, wrapped with ctx.
CloseErr(fl, ctx) == IF CloseFails(fl) THEN Wrapf(ErrIO, ctx) ELSE Nil
\* A handle left open with no stop function to close it.
Leaked(h) == handles[h].open /\ h \notin DOMAIN closers

(* -------------------------------- C1 ----------------------------------- *)
\* C1: StartCPU with a backend other than "built-in" and "fgprof" returns a
\* nil stop function and the "unknown CPU profile type" error, and touches
\* neither the directory, nor any file, nor the handle table, nor a profiler.
C1_UnknownTypeNoEffect ==
  [][(ret'.op = "StartCPU" /\ ret'.typ \notin {"built-in", "fgprof"})
       => /\ ret'.closeFn = 0
          /\ ret'.err = Err("unknown CPU profile type")
          /\ NothingTouched]_vars
C1_Witness ==
  /\ ret.op = "StartCPU" /\ ret.typ = "bogus"
  /\ ret.err = ErrUnknownType /\ ret.closeFn = 0
  /\ ret.dir \notin dirs

(* -------------------------------- C2 ----------------------------------- *)
\* C2 as stated: under any interleaving of starts and stop calls at most one
\* built-in CPU session and at most one trace session is started and not
\* yet stopped.
C2_Original == AtMostOneActive
\* C2 amended: as long as no stop function has been invoked a second time,
\* at most one built-in CPU session and at most one trace session is started
\* and not yet stopped; a StartCPU(built-in) / StartTrace issued meanwhile
\* with such a session unstopped fails, hands out no stop function, and its
\* error is the facility's "already active" error unless directory or file
\* creation failed first.
C2_SingleSessionUnlessRepeatedStop ==
  [][/\ NoRepeatedStop' => AtMostOneActive'
     /\ (/\ ret'.op = "StartCPU" /\ ret'.typ = CPUTypeBuiltIn
         /\ NoRepeatedStop /\ Unstopped(CPUTypeBuiltIn) # {})
          => /\ ret'.closeFn = 0 /\ closers' = closers /\ cpu' = cpu
             /\ ret'.err # Nil
             /\ ret'.fl \notin {"mkdir", "create"} => Head(ret'.err) = Head(ErrCPUActive)
     /\ (/\ ret'.op = "StartTrace"
         /\ NoRepeatedStop /\ Unstopped("trace") # {})
          => /\ ret'.closeFn = 0 /\ closers' = closers /\ tracing' = tracing
             /\ ret'.err # Nil
             /\ ret'.fl \notin {"mkdir", "create"} => ret'.err = ErrTraceActive]_vars
C2_Witness ==
  /\ ret.op = "StartTrace" /\ ret.err = ErrTraceActive /\ ret.closeFn = 0
  /\ NoRepeatedStop
  /\ Unstopped("trace") # {} /\ Unstopped(CPUTypeBuiltIn) # {}
  /\ tracing # 0 /\ cpu # 0

(* -------------------------------- C3 ----------------------------------- *)
\* C3: when StartCPU(built-in) has created its file and the attachment
\* fails, the file it opened is closed (once) before it returns, the
\* attachment error is returned (a failure of that close attached to it),
\* no stop function is returned; and no failing StartCPU leaves a handle it
\* opened open.
C3_AttachFailureClosesFile ==
  [][/\ (/\ ret'.op = "StartCPU" /\ ret'.typ = CPUTypeBuiltIn
         /\ ret'.f # 0 /\ ret'.err # Nil)
          => /\ ~handles'[ret'.f].open /\ handles'[ret'.f].closes = 1
             /\ ret'.closeFn = 0 /\ closers' = closers
             /\ cpu' = cpu /\ cpu # 0
             /\ ret'.err = ErrCPUActive
                             \o CloseErr(ret'.fl, CloseCtx(ret'.dir, "cpu.pprof"))
     /\ (ret'.op = "StartCPU" /\ ret'.err # Nil)
          => \A h \in DOMAIN handles' \ DOMAIN handles : ~handles'[h].open]_vars
C3_Witness ==
  /\ ret.op = "StartCPU" /\ ret.typ = CPUTypeBuiltIn /\ ret.f # 0
  /\ Len(ret.err) = 2 /\ Head(ret.err) = Head(ErrCPUActive)
  /\ ~handles[ret.f].open /\ ret.closeFn = 0

(* -------------------------------- C4 ----------------------------------- *)
\* C4: when StartTrace has created trace.out and the tracer fails to start,
\* it returns the tracer's error and a nil stop function and leaves the
\* handle open; no later call closes such a handle.
C4_TraceStartFailureLeaksFile ==
  [][/\ (ret'.op = "StartTrace" /\ ret'.f # 0 /\ ret'.err # Nil)
          => /\ ret'.err = ErrTraceActive /\ ret'.closeFn = 0
             /\ handles'[ret'.f].open /\ handles'[ret'.f].closes = 0
             /\ ret'.f \notin DOMAIN closers'
             /\ tracing' = tracing
     /\ \A h \in DOMAIN handles :
          (handles[h].name = "trace.out" /\ Leaked(h)) => Leaked(h)']_vars
C4_Witness ==
  /\ ret.op = "stop" /\ ret.typ = "trace" /\ tracing = 0
  /\ \E h \in DOMAIN handles :
       /\ handles[h].name = "trace.out" /\ Leaked(h) /\ handles[h].closes = 0
       /\ h > ret.h

(* -------------------------------- C5 ----------------------------------- *)
\* C5: the file of a session is open until its stop function is invoked;
\* an invocation of a stop function stops the profiler or tracer and leaves
\* the file closed, the data of a session still attached having reached the
\* file before the close (for fgprof unless the flush fails, and then the
\* file is closed all the same); for built-in CPU and trace the result is
\* nil exactly when the close succeeds and otherwise the close error wrapped
\* with the file path.
C5_StopStopsThenCloses ==
  [][/\ \A h \in DOMAIN closers' : handles'[h].closes = 0 => handles'[h].open
     /\ ret'.op = "stop" =>
          LET h == ret'.h
              closeErr == IF ~handles[h].open THEN ErrClosed
                          ELSE IF CloseFails(ret'.fl) THEN ErrIO ELSE Nil IN
          /\ ~handles'[h].open
          /\ handles[h].closes = 0 => handles'[h].closes = 1
          /\ closers[h] = CPUTypeBuiltIn =>
               /\ cpu' = 0
               /\ (cpu = h /\ handles[h].open) => files'[Path(h)].data = <<h>>
               /\ ret'.err = Wrapf(closeErr, <<"close", handles[h].dir, "cpu.pprof">>)
               /\ ret'.err = Nil <=> (handles[h].open /\ ~CloseFails(ret'.fl))
          /\ closers[h] = "trace" =>
               /\ tracing' = 0
               /\ (tracing = h /\ handles[h].open) => files'[Path(h)].data = <<h>>
               /\ ret'.err = Wrapf(closeErr, <<"close", handles[h].dir, "trace.out">>)
               /\ ret'.err = Nil <=> (handles[h].open /\ ~CloseFails(ret'.fl))
          /\ closers[h] = CPUTypeFGProf =>
               /\ h \notin fg'
               /\ ~WriteFails(ret'.fl) => files'[Path(h)].data = <<h>>]_vars
C5_Witness ==
  /\ ret.op = "stop" /\ ret.typ = CPUTypeBuiltIn /\ ret.fl = "close"
  /\ ret.err = Wrapf(ErrIO, <<"close", "d1", "cpu.pprof">>)
  /\ files[Path(ret.h)].data = <<ret.h>>
  /\ ~handles[ret.h].open /\ cpu = 0
  /\ Unstopped("trace") # {}

(* -------------------------------- C6 ----------------------------------- *)
\* C6 as stated: the fgprof stop function returns nil when flush and close
\* succeed, the flush error when the flush fails, and the close error only
\* when the flush succeeded and the close failed.
C6_Original ==
  (ret.op = "stop" /\ ret.typ = CPUTypeFGProf) =>
     ret.err = IF WriteFails(ret.fl) THEN ErrWrite
               ELSE CloseErr(ret.fl, CloseCtx(ret.dir, "cpu.fgprof.pprof"))
\* C6 amended: the fgprof stop function runs the flush first and then
\* closes the file whether or not the flush failed; it returns nil when
\* both succeed, the flush error when only the flush fails, the close error
\* wrapped with the path when only the close fails, and when both fail the
\* flush error first with the wrapped close error attached to it.
C6_FlushThenCloseErrorsMerged ==
  (ret.op = "stop" /\ ret.typ = CPUTypeFGProf) =>
     /\ ret.err = (IF WriteFails(ret.fl) THEN ErrWrite ELSE Nil)
                    \o CloseErr(ret.fl, CloseCtx(ret.dir, "cpu.fgprof.pprof"))
     /\ ret.err = Nil <=> ret.fl = "none"
     /\ ~handles[ret.h].open /\ handles[ret.h].closes = 1
     /\ ret.h \notin fg
C6_Witness ==
  /\ ret.op = "stop" /\ ret.typ = CPUTypeFGProf /\ ret.fl = "write+close"
  /\ Len(ret.err) = 2 /\ Head(ret.err) = Head(ErrWrite)
  /\ ~handles[ret.h].open

(* -------------------------------- C7 ----------------------------------- *)
\* C7: Heap returns the first error among directory creation, file
\* creation, write and close; a directory or file creation failure ends the
\* call with nothing later done; once the file is created it is closed
\* exactly once; a write failure is returned with a close failure attached;
\* nil is returned only when all four steps succeed.
C7_HeapFirstError ==
  [][ret'.op = "Heap" =>
       /\ ret'.fl = "mkdir" =>
            ret'.err = ErrMkdir /\ ret'.f = 0 /\ NothingTouched
       /\ ret'.fl = "create" =>
            /\ ret'.err = ErrCreate /\ ret'.f = 0
            /\ files' = files /\ handles' = handles
       /\ ret'.fl \notin {"mkdir", "create"} =>
            /\ ret'.f = Len(handles) + 1
            /\ handles'[ret'.f].closes = 1 /\ ~handles'[ret'.f].open
            /\ ret'.err = (IF WriteFails(ret'.fl) THEN ErrWrite ELSE Nil)
                            \o CloseErr(ret'.fl, <<"close">>)
       /\ ret'.err # Nil => Head(ret'.err).msg =
            (CASE ret'.fl = "mkdir" -> "mkdir failed"
               [] ret'.fl = "create" -> "create failed"
               [] WriteFails(ret'.fl) -> "write failed"
               [] OTHER -> "close failed")
       /\ ret'.err = Nil <=> ret'.fl = "none"]_vars
C7_Witness ==
  /\ ret.op = "Heap" /\ ret.fl = "write+close"
  /\ ret.err = ErrWrite \o Wrapf(ErrIO, <<"close">>)
  /\ handles[ret.f].closes = 1 /\ ~handles[ret.f].open

(* -------------------------------- C8 ----------------------------------- *)
\* C8: the sampling rate is 0 after StopHeapRecording, 1 after
\* StartHeapRecording(true), 524288 after StartHeapRecording(false), and
\* every other call leaves it as it was.
C8_RateSetByLastCall ==
  [][/\ ret'.op = "StopHeapRecording" => MemProfileRate' = 0
     /\ (ret'.op = "StartHeapRecording" /\ ret'.typ = "true") => MemProfileRate' = 1
     /\ (ret'.op = "StartHeapRecording" /\ ret'.typ = "false") => MemProfileRate' = 524288
     /\ ret'.op \in {"Heap", "StartCPU", "StartTrace", "stop"} =>
          MemProfileRate' = MemProfileRate]_vars
C8_Witness ==
  /\ ret.op = "StartHeapRecording" /\ ret.typ = "false"
  /\ MemProfileRate = 524288
  /\ handles # << >>

(* -------------------------------- C9 ----------------------------------- *)
\* The file each successful call writes.
C9_Target(r) ==
  CASE r.op = "Heap" -> "mem.pprof"
    [] r.op = "StartTrace" -> "trace.out"
    [] r.op = "StartCPU" /\ r.typ = "built-in" -> "cpu.pprof"
    [] r.op = "StartCPU" /\ r.typ = "fgprof" -> "cpu.fgprof.pprof"
\* C9: a successful Heap / StartCPU / StartTrace leaves dir existing and its
\* own file created afresh (empty for a session, holding this call's
\* snapshot alone for Heap), the other three files as they were; no step
\* removes a directory or a file.
C9_OneFilePerCall ==
  [][/\ dirs \subseteq dirs'
     /\ \A p \in DOMAIN files : files[p].exists => files'[p].exists
     /\ (ret'.op \in {"Heap", "StartCPU", "StartTrace"} /\ ret'.err = Nil) =>
          /\ ret'.dir \in dirs'
          /\ ret'.f = Len(handles) + 1
          /\ files'[<<ret'.dir, C9_Target(ret')>>] =
               [exists |-> TRUE,
                data |-> IF ret'.op = "Heap" THEN <<ret'.f>> ELSE << >>]
          /\ \A n \in FileNames \ {C9_Target(ret')} :
               files'[<<ret'.dir, n>>] = files[<<ret'.dir, n>>]]_vars
C9_Witness ==
  /\ ret.op = "Heap" /\ ret.err = Nil /\ ret.f > 1
  /\ handles[1].name = "mem.pprof" /\ handles[1].closes = 1
  /\ files[<<ret.dir, "mem.pprof">>].data = <<ret.f>>

(* -------------------------------- C10 ---------------------------------- *)
\* C10: a StartCPU(built-in) that fails at the attach step has by then
\* created dir and created or truncated dir/cpu.pprof; the session that is
\* attached, when started with the same dir, has that very file as its
\* output.
C10_AttachFailureAfterTruncate ==
  (/\ ret.op = "StartCPU" /\ ret.typ = CPUTypeBuiltIn
   /\ ret.err # Nil /\ Head(ret.err) = Head(ErrCPUActive))
    => /\ ret.dir \in dirs
       /\ ret.f # 0 /\ Path(ret.f) = <<ret.dir, "cpu.pprof">>
       /\ files[<<ret.dir, "cpu.pprof">>] = [exists |-> TRUE, data |-> << >>]
       /\ cpu # 0 /\ cpu < ret.f
       /\ handles[cpu].dir = ret.dir =>
            /\ Path(cpu) = Path(ret.f)
            /\ files[Path(cpu)].data = << >>
C10_Witness ==
  /\ ret.op = "StartCPU" /\ ret.typ = CPUTypeBuiltIn
  /\ ret.err = ErrCPUActive
  /\ cpu # 0 /\ handles[cpu].open /\ handles[cpu].dir = ret.dir
  /\ cpu \in Unstopped(CPUTypeBuiltIn)
  /\ files[Path(cpu)].data = << >>
====
